---- MODULE Spec2Model ----
(***************************************************************************)
(* Model of src/async_scraper.py: class Scraper.                           *)
(*                                                                         *)
(* One run of Scraper.run(urls_list, concurrency): the scraper object is   *)
(* constructed (semaphore, client, counter), fetch_data creates one        *)
(* fetch_json task per URL and gathers them, run decides its return value  *)
(* and the client is closed by __aexit__.  Tasks are asyncio coroutines:   *)
(* each action is the code a task runs between two suspension points       *)
(* (semaphore wait, client.get, asyncio.sleep, client.aclose).             *)
(***************************************************************************)
EXTENDS Integers, Sequences, FiniteSets, TLC

\* ---------------------------------------------------------------- bounds
MaxUrls == 3
MaxConcurrency == 2

\* ---------------------------------------------------------------- values
\* The URL at position k of the input list: two URLs alternate, so a list
\* of three or more has a repeated URL.
UrlAt(k) == IF k % 2 = 1 THEN "u1" ELSE "u2"

\* Python values that flow through the program.
None == [t |-> "None"]
Dict(u) == [t |-> "dict", url |-> u]
Pending == [t |-> "pending"]
Raised == [t |-> "raise"]
List(s) == [t |-> "list", items |-> s]

\* What `await self.client.get(url)` can end in:
\*   ok_json    a response with a non-error status and a JSON object body
\*   ok_invalid a response with a non-error status and a body that is not JSON
\*   status     a response with a 4xx/5xx status
\*   transport  get raises httpx.RequestError
\*   unexpected get raises some other Exception
OkOutcomes == {"ok_json", "ok_invalid"}
Outcomes == OkOutcomes \cup {"status", "transport", "unexpected"}

Range(s) == {s[k] : k \in 1..Len(s)}

VARIABLES
    urls,                \* urls_list passed to run
    concurrency,         \* concurrency passed to run
    value,               \* self.semaphore._value
    waiters,             \* self.semaphore._waiters, FIFO of task indices
    closed,              \* number of times self.client.aclose() has run
    successful_fetches,  \* self.successful_fetches
    pc,                  \* position of each fetch_json task
    response,            \* outcome of each task's primary client.get
    retried,             \* outcome of each task's retry client.get
    calls,               \* number of client.get calls each task has issued
    counted,             \* number of times each task ran line 54
    ret,                 \* what each fetch_json task returned
    completion,          \* task indices in the order the tasks finished
    runpc,               \* position of run / fetch_data
    summary,             \* the count printed by fetch_data
    data,                \* what fetch_data returned
    returned             \* what run returned

vars == <<urls, concurrency, value, waiters, closed, successful_fetches, pc,
          response, retried, calls, counted, ret, completion, runpc, summary,
          data, returned>>

N == Len(urls)
Tasks == 1..N

UrlLists == {[k \in 1..n |-> UrlAt(k)] : n \in 0..MaxUrls}

\* State after `cls(concurrency)` in run: Scraper.__init__ has run.
Init ==
    /\ urls \in UrlLists
    /\ concurrency \in 1..MaxConcurrency
    /\ value = concurrency
    /\ waiters = <<>>
    /\ closed = 0
    /\ successful_fetches = 0
    /\ pc = [i \in 1..Len(urls) |-> "created"]
    /\ response = [i \in 1..Len(urls) |-> "none"]
    /\ retried = [i \in 1..Len(urls) |-> "none"]
    /\ calls = [i \in 1..Len(urls) |-> 0]
    /\ counted = [i \in 1..Len(urls) |-> 0]
    /\ ret = [i \in 1..Len(urls) |-> Pending]
    /\ completion = <<>>
    /\ runpc = "start"
    /\ summary = -1
    /\ data = Pending
    /\ returned = Pending

\* ------------------------------------------------------------- semaphore
\* asyncio.Semaphore.locked(): no permit left, or somebody already waits.
SemLockedNever(v, w) == FALSE
SemLocked(v, w) == v = 0 \/ Len(w) > 0

\* asyncio.Semaphore.release(): the permit goes to the first waiter if there
\* is one (value += 1, then _wake_up_next takes it back for that waiter).
ReleaseValueLeak(v, w) == v
ReleaseValue(v, w) == IF Len(w) > 0 THEN v ELSE v + 1
ReleaseWaiters(w) == IF Len(w) > 0 THEN Tail(w) ELSE w
ReleasePcNoWake(p, w) == p
ReleasePc(p, w) == IF Len(w) > 0 THEN [p EXCEPT ![Head(w)] = "woken"] ELSE p

\* ------------------------------------------------------------ fetch_json
\* Lines 50-51: what the primary attempt does with the outcome of get:
\* go on to the sleep, or raise the named exception.
PrimaryRaises(o) ==
    CASE o \in OkOutcomes -> "no"
      [] o = "status" -> "HTTPStatusError"
      [] o = "transport" -> "RequestError"
      [] o = "unexpected" -> "Exception"

\* Lines 56-66: the except clauses of the outer try.
ExceptClauseRetryStatus(exc) ==
    CASE exc = "HTTPStatusError" -> "retry"
      [] exc = "RequestError" -> "retry"
      [] exc = "Exception" -> "return_none"
ExceptClauseNoCatchAll(exc) ==
    CASE exc = "HTTPStatusError" -> "return_none"
      [] exc = "RequestError" -> "retry"
      [] exc = "Exception" -> "raise"
ExceptClauseRetryUnexpected(exc) ==
    CASE exc = "HTTPStatusError" -> "return_none"
      [] exc = "RequestError" -> "retry"
      [] exc = "Exception" -> "retry"
ExceptClause(exc) ==
    CASE exc = "HTTPStatusError" -> "return_none"
      [] exc = "RequestError" -> "retry"
      [] exc = "Exception" -> "return_none"

\* Lines 60-63 and 66: the retry. The response is assigned and dropped, an
\* exception returns None; either way the task returns None.
RetryClauseAgain(o) == IF o \in {"transport", "unexpected"} THEN "retry" ELSE "return_none"
RetryClauseUsesResponse(o) == IF o \in OkOutcomes THEN "sleep" ELSE "return_none"
RetryClause(o) == "return_none"

\* Line 55: response.json() on the body of a non-error response: the dict
\* decoded from the body (fetch_json is declared Optional[Dict]), or the
\* decoder raises.
Json(o, u) ==
    CASE o = "ok_json" -> Dict(u)
      [] o = "ok_invalid" -> Raised

\* The `response` local of task i: the retry assigns it again (line 61).
LastResponse(i) == IF retried[i] # "none" THEN retried[i] ELSE response[i]

\* The task leaves `async with self.semaphore` with result r: the slot is
\* released (Semaphore.__aexit__) and the task is finished.
Finish(i, r) ==
    /\ ret' = [ret EXCEPT ![i] = r]
    /\ completion' = Append(completion, i)
    /\ pc' = ReleasePc([pc EXCEPT ![i] = "done"], waiters)
    /\ value' = ReleaseValue(value, waiters)
    /\ waiters' = ReleaseWaiters(waiters)

\* Carry on from a decision d of the try statement.
ContinueSleepOutsideSlot(i, d) ==
    IF d = "sleep"
    THEN /\ pc' = ReleasePc([pc EXCEPT ![i] = "sleep"], waiters)
         /\ value' = ReleaseValue(value, waiters)
         /\ waiters' = ReleaseWaiters(waiters)
         /\ UNCHANGED <<ret, completion, calls>>
    ELSE IF d = "retry"
    THEN /\ pc' = [pc EXCEPT ![i] = "retry"]
         /\ calls' = [calls EXCEPT ![i] = @ + 1]
         /\ UNCHANGED <<ret, completion, value, waiters>>
    ELSE IF d = "return_none"
    THEN Finish(i, None) /\ UNCHANGED calls
    ELSE Finish(i, Raised) /\ UNCHANGED calls
ContinueRetryOutsideSlot(i, d) ==
    IF d = "sleep"
    THEN /\ pc' = [pc EXCEPT ![i] = "sleep"]
         /\ UNCHANGED <<ret, completion, value, waiters, calls>>
    ELSE IF d = "retry"
    THEN /\ pc' = ReleasePc([pc EXCEPT ![i] = "retry"], waiters)
         /\ value' = ReleaseValue(value, waiters)
         /\ waiters' = ReleaseWaiters(waiters)
         /\ calls' = [calls EXCEPT ![i] = @ + 1]
         /\ UNCHANGED <<ret, completion>>
    ELSE IF d = "return_none"
    THEN Finish(i, None) /\ UNCHANGED calls
    ELSE Finish(i, Raised) /\ UNCHANGED calls
Continue(i, d) ==
    IF d = "sleep"
    THEN /\ pc' = [pc EXCEPT ![i] = "sleep"]
         /\ UNCHANGED <<ret, completion, value, waiters, calls>>
    ELSE IF d = "retry"
    THEN /\ pc' = [pc EXCEPT ![i] = "retry"]
         /\ calls' = [calls EXCEPT ![i] = @ + 1]
         /\ UNCHANGED <<ret, completion, value, waiters>>
    ELSE IF d = "return_none"
    THEN Finish(i, None) /\ UNCHANGED calls
    ELSE Finish(i, Raised) /\ UNCHANGED calls

\* fetch_data, line 78-79: the tasks are created and gather is awaited.
FetchData ==
    /\ runpc = "start"
    /\ runpc' = "gather"
    /\ UNCHANGED <<urls, concurrency, value, waiters, closed,
                   successful_fetches, pc, response, retried, calls, counted,
                   ret, completion, summary, data, returned>>

\* Line 48 then line 50: a task starts, in the order gather scheduled it.
\* With a free permit it takes it and issues the primary get at once;
\* otherwise it queues on the semaphore.
Start(i) ==
    /\ runpc = "gather"
    /\ pc[i] = "created"
    /\ \A j \in Tasks : j < i => pc[j] # "created"
    /\ IF ~SemLocked(value, waiters)
       THEN /\ value' = value - 1
            /\ pc' = [pc EXCEPT ![i] = "get"]
            /\ calls' = [calls EXCEPT ![i] = @ + 1]
            /\ UNCHANGED waiters
       ELSE /\ waiters' = Append(waiters, i)
            /\ pc' = [pc EXCEPT ![i] = "waiting"]
            /\ UNCHANGED <<value, calls>>
    /\ UNCHANGED <<urls, concurrency, closed, successful_fetches, response,
                   retried, counted, ret, completion, runpc, summary, data,
                   returned>>

\* Line 48 then line 50: a waiter that was handed a permit resumes and
\* issues the primary get.
Resume(i) ==
    /\ pc[i] = "woken"
    /\ pc' = [pc EXCEPT ![i] = "get"]
    /\ calls' = [calls EXCEPT ![i] = @ + 1]
    /\ UNCHANGED <<urls, concurrency, value, waiters, closed,
                   successful_fetches, response, retried, counted, ret,
                   completion, runpc, summary, data, returned>>

\* Lines 50-51, 56-66: the primary get ends with outcome o. gather (line
\* 79) scheduled the first step of every task before fetch_data suspended,
\* so the event loop has started them all before it resumes any of them.
GetResponse(i) ==
    /\ pc[i] = "get"
    /\ \A j \in Tasks : pc[j] # "created"
    /\ \E o \in Outcomes :
        /\ response' = [response EXCEPT ![i] = o]
        /\ IF PrimaryRaises(o) = "no"
           THEN Continue(i, "sleep")
           ELSE Continue(i, ExceptClause(PrimaryRaises(o)))
    /\ UNCHANGED <<urls, concurrency, closed, successful_fetches, retried,
                   counted, runpc, summary, data, returned>>

\* Line 54: `self.successful_fetches += 1`. No await separates the read from
\* the write, so no other task runs between them.
IncrementLost(c) == IF c >= 1 THEN c ELSE c + 1
Increment(c) == c + 1

\* Lines 52-55, 64-66: the sleep is over; log, count, decode, return.
\* The counter is incremented before response.json() is evaluated.
SleepDone(i) ==
    /\ pc[i] = "sleep"
    /\ successful_fetches' = Increment(successful_fetches)
    /\ counted' = [counted EXCEPT ![i] = @ + 1]
    /\ IF Json(LastResponse(i), urls[i]) = Raised
       THEN Continue(i, ExceptClause("Exception"))
       ELSE Finish(i, Json(LastResponse(i), urls[i])) /\ UNCHANGED calls
    /\ UNCHANGED <<urls, concurrency, closed, response, retried, runpc,
                   summary, data, returned>>

\* Lines 60-63, 66: the retry get ends with outcome o.
RetryResponse(i) ==
    /\ pc[i] = "retry"
    /\ \E o \in Outcomes :
        /\ retried' = [retried EXCEPT ![i] = o]
        /\ Continue(i, RetryClause(o))
    /\ UNCHANGED <<urls, concurrency, closed, successful_fetches, response,
                   counted, runpc, summary, data, returned>>

\* ------------------------------------------------------ fetch_data / run
\* asyncio.gather (line 79) is done when every task has finished; a task
\* that raised ends it at once with that exception.
AnyRaised(r) == \E i \in DOMAIN r : r[i] = Raised
GatherReadyFirstCompleted(r) == r = <<>> \/ \E i \in DOMAIN r : r[i] # Pending
GatherReadyFailFast(r) ==
    \/ \E i \in DOMAIN r : r[i] \in {None, Raised}
    \/ \A i \in DOMAIN r : r[i] # Pending
GatherReady(r) == AnyRaised(r) \/ \A i \in DOMAIN r : r[i] # Pending

\* asyncio.gather's result: the tasks' results in the order of the tasks.
GatherCompletionOrder(r, c) == [k \in 1..Len(c) |-> r[c[k]]]
Gather(r, c) == [k \in 1..Len(r) |-> r[k]]

\* Line 87: truth value of a list.
Truthy(l) == Len(l) > 0

\* Lines 87-91: the value run returns for the list fetch_data returned.
RunResultAlwaysData(l) == List(l)
RunResult(l) == IF Truthy(l) THEN List(l) ELSE None

\* Lines 79-81 and 86-91: gather is done, fetch_data prints the count and
\* returns, run picks its return value and enters __aexit__.
FetchDataReturn ==
    /\ runpc = "gather"
    /\ GatherReady(ret)
    /\ IF AnyRaised(ret)
       THEN /\ data' = Raised
            /\ returned' = Raised
            /\ UNCHANGED summary
       ELSE /\ summary' = successful_fetches
            /\ data' = List(Gather(ret, completion))
            /\ returned' = RunResult(Gather(ret, completion))
    /\ runpc' = "aexit"
    /\ UNCHANGED <<urls, concurrency, value, waiters, closed,
                   successful_fetches, pc, response, retried, calls, counted,
                   ret, completion>>

\* Lines 31-32: __aexit__ closes the client; run is over.
AExit ==
    /\ runpc = "aexit"
    /\ closed' = closed + 1
    /\ runpc' = "done"
    /\ UNCHANGED <<urls, concurrency, value, waiters, successful_fetches, pc,
                   response, retried, calls, counted, ret, completion, summary,
                   data, returned>>

Next ==
    \/ FetchData
    \/ \E i \in Tasks : Start(i)
    \/ \E i \in Tasks : Resume(i)
    \/ \E i \in Tasks : GetResponse(i)
    \/ \E i \in Tasks : SleepDone(i)
    \/ \E i \in Tasks : RetryResponse(i)
    \/ FetchDataReturn
    \/ AExit

Spec == Init /\ [][Next]_vars

TypeOK ==
    /\ urls \in UrlLists
    /\ concurrency \in 1..MaxConcurrency
    /\ value \in 0..concurrency
    /\ Range(waiters) \subseteq Tasks
    /\ closed \in 0..1
    /\ successful_fetches \in 0..N
    /\ pc \in [Tasks -> {"created", "waiting", "woken", "get", "sleep", "retry", "done"}]
    /\ response \in [Tasks -> Outcomes \cup {"none"}]
    /\ retried \in [Tasks -> Outcomes \cup {"none"}]
    /\ calls \in [Tasks -> 0..2]
    /\ counted \in [Tasks -> 0..1]
    /\ runpc \in {"start", "gather", "aexit", "done"}

\* ---------------------------------------------------------------- claims
\* Tasks that hold a permit of the semaphore: handed one and not yet out of
\* the `async with` block.
Holders == {i \in Tasks : pc[i] \in {"woken", "get", "sleep", "retry"}}

Absent(l) == {k \in 1..Len(l) : l[k] = None}
NonAbsent(l) == {k \in 1..Len(l) : l[k] # None}

\* C1: at every moment the number of fetch_json tasks holding a slot of the
\* admission gate is at most `concurrency`, also with more URLs than slots.
C1_GateBound == Cardinality(Holders) <= concurrency

\* The gate is full and a further task is queued behind it.
C1_Witness ==
    /\ N > concurrency
    /\ Cardinality(Holders) = concurrency
    /\ Len(waiters) > 0

\* C2: fetch_data returns exactly one entry per input URL and entry i is
\* what the fetch of URL i returned (its payload or None), whatever the
\* order in which the fetches finished.
C2_OrderPreserved ==
    data.t = "list" =>
        /\ Len(data.items) = N
        /\ \A i \in Tasks :
            /\ data.items[i] = ret[i]
            /\ data.items[i] =
                 (IF response[i] = "ok_json" THEN Dict(urls[i]) ELSE None)

\* Two fetches finished in the reverse of the input order with different
\* results, and fetch_data has returned.
C2_Witness ==
    /\ data.t = "list"
    /\ N >= 2
    /\ completion[1] = 2
    /\ ret[1] = None
    /\ ret[2] = Dict(urls[2])

\* C3: at the end of a run successful_fetches equals the number of entries
\* of the result that are not None, for every combination of outcomes.
C3_CounterMatchesResults ==
    (runpc = "done" /\ data.t = "list") =>
        successful_fetches = Cardinality(NonAbsent(data.items))

\* C4: with a non-empty URL list of which every fetch returned None, run
\* returns None and not the list of None entries.
C4_AllAbsentGivesSentinel ==
    (runpc = "done" /\ N > 0 /\ \A i \in Tasks : ret[i] = None) =>
        returned = None

\* C5 as stated: with an empty URL list run returns the empty list, the
\* counter is zero and no network call was issued.
C5_EmptyInputReturnsEmptyList ==
    (runpc = "done" /\ N = 0) =>
        /\ returned = List(<<>>)
        /\ successful_fetches = 0
        /\ \A i \in DOMAIN calls : calls[i] = 0

\* C5 amended: with an empty URL list fetch_data returns the empty list and
\* run returns None for it; the counter is zero (and printed as zero) and no
\* network call was issued.
C5_EmptyInputReturnsNone ==
    (runpc \in {"aexit", "done"} /\ N = 0) =>
        /\ data = List(<<>>)
        /\ returned = None
        /\ successful_fetches = 0
        /\ summary = 0
        /\ \A i \in DOMAIN calls : calls[i] = 0

\* run is over for an empty URL list.
C5_Witness == runpc = "done" /\ N = 0 /\ returned # Pending

\* C6: the client is closed exactly once by the end of run, only after
\* every fetch task has finished, and no get is issued or in flight on the
\* closed client.
C6_ClosedOnceAfterAllTasks ==
    /\ [](/\ closed <= 1
          /\ (runpc = "done" => closed = 1)
          /\ (closed > 0 => \A i \in Tasks : pc[i] = "done"))
    /\ [][closed > 0 => calls' = calls]_vars

\* The client was closed after a run in which one fetch returned a payload
\* and another one returned None.
C6_Witness ==
    /\ closed = 1
    /\ runpc = "done"
    /\ \E i, j \in Tasks : ret[i] = None /\ ret[j].t = "dict"

\* C7: fetch_json never ends by raising; every failure of the primary
\* attempt, with every outcome of the retry, ends in None, so neither
\* fetch_data nor run is aborted.
C7_NeverRaises ==
    /\ \A i \in Tasks :
        /\ ret[i] # Raised
        /\ (pc[i] = "done" /\ response[i] # "ok_json")
              => ret[i] = None
    /\ data # Raised
    /\ returned # Raised

\* run returned although one primary get raised an unexpected exception,
\* one body did not decode and one retry raised.
C7_Witness ==
    /\ runpc = "done"
    /\ \E i, j, k \in Tasks :
        /\ response[i] = "unexpected"
        /\ response[j] = "ok_invalid"
        /\ retried[k] \in {"transport", "unexpected"}

\* C8: a fetch whose primary get got a 4xx/5xx status returns None after
\* exactly one network call, without a retry and without counting.
C8_StatusNotRetried ==
    \A i \in Tasks : response[i] = "status" =>
        /\ pc[i] = "done"
        /\ ret[i] = None
        /\ calls[i] = 1
        /\ retried[i] = "none"
        /\ counted[i] = 0

\* A fetch has finished on a 4xx/5xx status.
C8_Witness == \E i \in Tasks : response[i] = "status" /\ pc[i] = "done"

\* C9: a fetch whose primary get failed at the transport level and whose
\* retry failed too returns None after exactly two network calls; there is
\* never a third call.
C9_TwoCallsThenNone ==
    \A i \in Tasks :
        /\ calls[i] <= 2
        /\ (response[i] = "transport"
              /\ retried[i] \in {"status", "transport", "unexpected"}) =>
                 (pc[i] = "done" /\ ret[i] = None /\ calls[i] = 2)

\* A fetch has finished after a transport failure followed by a failed
\* retry.
C9_Witness ==
    \E i \in Tasks :
        /\ response[i] = "transport"
        /\ retried[i] \in {"transport", "unexpected"}
        /\ pc[i] = "done"

\* C10: a fetch whose primary get failed at the transport level returns
\* None and never increments the counter, whether the retry succeeds or not.
C10_RetryOutcomeDiscarded ==
    \A i \in Tasks : response[i] = "transport" =>
        /\ counted[i] = 0
        /\ pc[i] \in {"retry", "done"}
        /\ (pc[i] = "done" => ret[i] = None /\ retried[i] # "none")

\* A fetch has finished after a transport failure followed by a retry that
\* got a good response.
C10_Witness ==
    \E i \in Tasks :
        /\ response[i] = "transport"
        /\ retried[i] = "ok_json"
        /\ pc[i] = "done"
\* C11: every fetch_json task that took a slot gives back exactly that slot
\* when it finishes, on every exit path: slots held plus free permits is
\* always the capacity, a finished task holds none, and when the run is
\* over all `concurrency` permits are free and nobody is queued.
C11_SlotsConserved ==
    /\ Cardinality(Holders) + value = concurrency
    /\ Range(waiters) = {i \in Tasks : pc[i] = "waiting"}
    /\ (runpc \in {"aexit", "done"}) => (value = concurrency /\ waiters = <<>>)

\* The run is over, there were more tasks than permits, and the tasks left
\* by a payload, by a status failure and by a retry.
C11_Witness ==
    /\ runpc = "done"
    /\ N > concurrency
    /\ value = concurrency
    /\ \E i, j, k \in Tasks :
        /\ ret[i].t = "dict"
        /\ response[j] = "status"
        /\ retried[k] # "none"

\* C12: a failing fetch never cancels or skips another one: when fetch_data
\* has its result and has printed the count, every task has taken a slot,
\* issued its primary get and finished.
C12_FailSoft ==
    (data # Pending \/ summary # -1 \/ returned # Pending) =>
        \A i \in Tasks :
            /\ pc[i] = "done"
            /\ ret[i] # Pending
            /\ calls[i] >= 1
            /\ response[i] # "none"

\* fetch_data has returned; the task that finished first had failed and a
\* task that finished after it returned a payload.
C12_Witness ==
    /\ data.t = "list"
    /\ N >= 2
    /\ ret[completion[1]] = None
    /\ response[completion[1]] \in {"status", "unexpected"}
    /\ ret[completion[N]].t = "dict"
\* C13: no increment of the shared counter is lost under any interleaving:
\* successful_fetches is always the number of tasks that ran line 54, and so
\* is the count fetch_data prints.
C13_NoLostIncrement ==
    /\ \A i \in Tasks : counted[i] <= 1
    /\ successful_fetches = Cardinality({i \in Tasks : counted[i] = 1})
    /\ summary # -1 => summary = Cardinality({i \in Tasks : counted[i] = 1})

\* Two tasks slept at the same time; one of them has incremented the
\* counter and the other is about to.
C13_Witness ==
    \E i, j \in Tasks :
        /\ i # j
        /\ pc[i] = "sleep"
        /\ pc[j] = "done"
        /\ counted[j] = 1
        /\ completion[1] = j
        /\ j > i
\* Tasks in the sleep of line 52, and tasks with a get on the wire.
Sleeping == {i \in Tasks : pc[i] = "sleep"}
InFlight == {i \in Tasks : pc[i] \in {"get", "retry"}}

\* C14: a fetch that returns a payload went through the sleep holding its
\* slot: entering the sleep frees no permit and wakes no waiter, a payload
\* is returned only out of the sleep, and sleeping tasks count against the
\* permits, so a queued task stays queued while the sleepers fill the gate.
C14_DelayHoldsSlot ==
    /\ [](/\ Cardinality(Sleeping) + value <= concurrency
          /\ (Len(waiters) > 0 => value = 0))
    /\ [][\A i \in Tasks :
            /\ (pc[i] # "sleep" /\ pc'[i] = "sleep") =>
                  (value' = value /\ waiters' = waiters
                     /\ \A j \in Tasks : j # i => pc'[j] = pc[j])
            /\ (ret[i] = Pending /\ ret'[i] # Pending /\ ret'[i] # None) =>
                  pc[i] = "sleep"]_vars

\* Every permit is taken by a task in its sleep and another task is queued.
C14_Witness ==
    /\ Cardinality(Sleeping) = concurrency
    /\ value = 0
    /\ Len(waiters) > 0

\* C15: a get, primary or retry, is on the wire only while its task holds a
\* slot, and the retry is issued under the slot of the primary attempt, with
\* no release in between; so gets in flight never exceed `concurrency`.
C15_InFlightBounded ==
    /\ [](/\ Cardinality(InFlight) <= concurrency
          /\ Cardinality(InFlight) + value <= concurrency)
    /\ [][\A i \in Tasks :
            (pc[i] = "get" /\ pc'[i] = "retry") =>
                (value' = value /\ waiters' = waiters
                   /\ \A j \in Tasks : j # i => pc'[j] = pc[j])]_vars

\* Every permit is taken by a task whose retry is on the wire while another
\* task is queued.
C15_Witness ==
    /\ Cardinality({i \in Tasks : pc[i] = "retry"}) = concurrency
    /\ value = 0
    /\ Len(waiters) > 0
\* C16: every fetch_json task issues at least one and at most two gets, and
\* the second one only after its own first get failed at the transport
\* level, never after a good response, a status failure, an undecodable body
\* or another exception.
C16_OneOrTwoCalls ==
    \A i \in Tasks :
        /\ calls[i] <= 2
        /\ (pc[i] \in {"get", "sleep", "retry", "done"}) => calls[i] >= 1
        /\ (calls[i] = 2 \/ pc[i] = "retry" \/ retried[i] # "none") =>
              response[i] = "transport"
        /\ (pc[i] = "done" /\ response[i] # "transport") => calls[i] = 1
        /\ (pc[i] = "done" /\ response[i] = "transport") => calls[i] = 2

\* The run is over with one task that made two gets and tasks that made one
\* after an undecodable body and after an unexpected exception.
C16_Witness ==
    /\ runpc = "done"
    /\ \E i, j, k \in Tasks :
        /\ calls[i] = 2
        /\ calls[j] = 1 /\ response[j] = "ok_invalid"
        /\ calls[k] = 1 /\ response[k] = "unexpected"

\* The event loop runs every step that stays ready: the scheduled start or
\* resumption of a task, the end of a get and of a sleep, the return of
\* gather and the close of the client.
Fairness ==
    /\ WF_vars(FetchData)
    /\ \A i \in 1..MaxUrls :
        /\ WF_vars(i \in Tasks /\ Start(i))
        /\ WF_vars(i \in Tasks /\ Resume(i))
        /\ WF_vars(i \in Tasks /\ GetResponse(i))
        /\ WF_vars(i \in Tasks /\ SleepDone(i))
        /\ WF_vars(i \in Tasks /\ RetryResponse(i))
    /\ WF_vars(FetchDataReturn)
    /\ WF_vars(AExit)

FairSpec == Spec /\ Fairness

\* C17: with concurrency >= 1 and every get and sleep ending, every task,
\* also one queued behind a full gate, gets a slot and finishes, fetch_data
\* returns and the client is closed.
C17_Terminates ==
    <>[](/\ \A i \in Tasks :
              pc[i] = "done" /\ calls[i] >= 1 /\ response[i] # "none"
         /\ waiters = <<>>
         /\ data # Pending
         /\ runpc = "done"
         /\ closed = 1)

\* The run is over with one permit and three tasks, two of which had to
\* queue for it.
C17_Witness ==
    /\ runpc = "done"
    /\ closed = 1
    /\ concurrency = 1
    /\ N >= 3
    /\ \A i \in Tasks : pc[i] = "done"
====
